---- MODULE Spec2Model ----
(***************************************************************************)
(* A model of diffstack/utils/torch_utils.py: the parameter synchronizer   *)
(* (soft_update, hard_update), the scheduler factory, the backpropagation  *)
(* driver, the reflection helpers (rgetattr, rsetattr), the ProgressBar    *)
(* callback and the timing helpers (tic, toc, print_log).                  *)
(*                                                                         *)
(* Each component has its own specification (SpecSync, SpecAttr, ...): the *)
(* components share no state in the source, so a specification moves the   *)
(* variables of one component and leaves the others at their initial value.*)
(***************************************************************************)
EXTENDS Integers, Sequences, FiniteSets, TLC

VARIABLES
    source,      \* parameters of the source network, in parameters() order
    target,      \* parameters of the target network, in parameters() order
    syncLast,    \* the last synchronizer call: its arguments, pre-state and outcome
    heap,        \* the object graph: the attributes of every object
    attrLast,    \* the last rgetattr/rsetattr call: its arguments, pre-state and outcome
    clock,       \* time.time()
    device,      \* number of torch.cuda.synchronize() calls made
    console,     \* what print has written to standard output
    logfile,     \* what has been written to the log file handle
    timerLast,   \* the last tic/toc/print_log call: its arguments, pre-state and outcome
    schedLast,   \* the last lr_scheduler_from_optim_params call and what it returned
    net,         \* backprop_for_loss: parameters and gradients of the network
    bpLast,      \* the last backprop_for_loss call: arguments, pre-state, outcome
    bpCalls,     \* number of backprop_for_loss calls made
    trainer,     \* the trainer the callback is attached to
    callback,    \* the fields of the ProgressBar callback
    pbGhost,     \* history of the callback: the fit window and the last hook
    disposed     \* the indicator that the last on_fit_end closed

varsSync == <<source, target, syncLast>>

varsAttr == <<heap, attrLast>>

varsTimer == <<clock, device, console, logfile, timerLast>>

varsSched == <<schedLast>>

varsBackprop == <<net, bpLast, bpCalls>>

varsProgress == <<trainer, callback, pbGhost, disposed>>

vars == <<varsSync, varsAttr, varsTimer, varsSched, varsBackprop, varsProgress>>

exceptSync == <<varsAttr, varsTimer, varsSched, varsBackprop, varsProgress>>

exceptAttr == <<varsSync, varsTimer, varsSched, varsBackprop, varsProgress>>

exceptTimer == <<varsSync, varsAttr, varsSched, varsBackprop, varsProgress>>

exceptSched == <<varsSync, varsAttr, varsTimer, varsBackprop, varsProgress>>

exceptBackprop == <<varsSync, varsAttr, varsTimer, varsSched, varsProgress>>

exceptProgress == <<varsSync, varsAttr, varsTimer, varsSched, varsBackprop>>

Min(a, b) == IF a <= b THEN a ELSE b

(***************************************************************************)
(* Floating-point elements.  A value is finite (sign and magnitude, so     *)
(* that -0.0 and +0.0 are two values), an infinity, or NaN.  Magnitudes    *)
(* are counted in units of the smallest representable step; a product      *)
(* that falls between two representable values is rounded toward zero.     *)
(***************************************************************************)
Fin(n, m) == [cls |-> "fin", neg |-> n, mag |-> m]
Inf(n)    == [cls |-> "inf", neg |-> n, mag |-> 0]
NaN       == [cls |-> "nan", neg |-> FALSE, mag |-> 0]

IsFinite(x) == x.cls = "fin"

\* IEEE comparison ==: NaN equals nothing, -0.0 equals +0.0.
NumEq(x, y) ==
    /\ x.cls # "nan"
    /\ y.cls # "nan"
    /\ \/ x = y
       \/ IsFinite(x) /\ IsFinite(y) /\ x.mag = 0 /\ y.mag = 0

\* Resolution of the blend factor: tau ranges over 0/TauDen .. TauDen/TauDen.
TauDen == 2

Taus == 0..TauDen

\* tensor * python_float, for the non-negative scalar t/TauDen.
MulScalar(x, t) ==
    CASE x.cls = "nan" -> NaN
      [] x.cls = "inf" -> IF t = 0 THEN NaN ELSE x
      [] OTHER         -> Fin(x.neg, (x.mag * t) \div TauDen)

Signed(x) == IF x.neg THEN 0 - x.mag ELSE x.mag

\* tensor + tensor, elementwise.
FAdd(x, y) ==
    CASE x.cls = "nan" \/ y.cls = "nan" -> NaN
      [] x.cls = "inf" /\ y.cls = "inf" -> IF x.neg = y.neg THEN x ELSE NaN
      [] x.cls = "inf" -> x
      [] y.cls = "inf" -> y
      [] OTHER ->
           LET s == Signed(x) + Signed(y)
           IN  IF s = 0 THEN Fin(x.neg /\ y.neg, 0)
               ELSE IF s < 0 THEN Fin(TRUE, 0 - s) ELSE Fin(FALSE, s)

(***************************************************************************)
(* Tensors.  A parameter is a one-dimensional tensor of numel elements     *)
(* that all hold val (elementwise arithmetic keeps such a tensor filled    *)
(* with one value).  A network is the sequence of its parameters.          *)
(***************************************************************************)
Tensor(n, v) == [numel |-> n, val |-> v]

\* Shape of the result of an elementwise binary operation (broadcasting);
\* 0 when the shapes cannot be broadcast together (RuntimeError).
BroadcastNumel(a, b) ==
    IF a = b THEN a
    ELSE IF a = 1 THEN b
    ELSE IF b = 1 THEN a
    ELSE 0

\* dst.copy_(src) is permitted when src broadcasts to the shape of dst.
CopyOk(dstNumel, srcNumel) == srcNumel = dstNumel \/ srcNumel = 1

\* Faulty variant of Copy: the destination keeps its elements.
CopyNothing(dst, src) == dst

\* dst.copy_(src): dst keeps its shape and takes the elements of src.
Copy(dst, src) == Tensor(dst.numel, src.val)

\* Faulty variant of Blend: the two weights are exchanged.
BlendSwapped(tp, p, t) ==
    Tensor(BroadcastNumel(tp.numel, p.numel),
           FAdd(MulScalar(tp.val, t), MulScalar(p.val, TauDen - t)))

\* target_param * (1.0 - tau) + param * tau
Blend(tp, p, t) ==
    Tensor(BroadcastNumel(tp.numel, p.numel),
           FAdd(MulScalar(tp.val, TauDen - t), MulScalar(p.val, t)))

\* Faulty variant of ZipLen: the pairing stops one pair early.
ZipLenShort(tgt, src) == IF Min(Len(tgt), Len(src)) = 0 THEN 0 ELSE Min(Len(tgt), Len(src)) - 1

\* zip(target.parameters(), source.parameters()) stops at the shorter one.
ZipLen(tgt, src) == Min(Len(tgt), Len(src))

\* One iteration of the loop of hard_update raises iff copy_ does.
HardStepOk(tp, p) == CopyOk(tp.numel, p.numel)

\* One iteration of the loop of soft_update raises iff the blend cannot be
\* broadcast or copy_ rejects its shape.
SoftStepOk(tp, p) ==
    /\ BroadcastNumel(tp.numel, p.numel) # 0
    /\ CopyOk(tp.numel, BroadcastNumel(tp.numel, p.numel))

StepOk(op, tp, p) == IF op = "hard" THEN HardStepOk(tp, p) ELSE SoftStepOk(tp, p)

\* The body of the loop: what one iteration leaves in the target parameter.
StepResult(op, tp, p, t) == IF op = "hard" THEN Copy(tp, p) ELSE Copy(tp, Blend(tp, p, t))

\* Index of the first iteration that raises, 0 when none does.
FirstBad(op, tgt, src) ==
    LET bad == {i \in 1..ZipLen(tgt, src) : ~StepOk(op, tgt[i], src[i])}
    IN  IF bad = {} THEN 0 ELSE CHOOSE i \in bad : \A j \in bad : i <= j

\* The loop: iterations before the first raising one take effect.
RunLoop(op, tgt, src, t) ==
    LET bad == FirstBad(op, tgt, src)
    IN  [i \in 1..Len(tgt) |->
            IF i <= ZipLen(tgt, src) /\ (bad = 0 \/ i < bad)
            THEN StepResult(op, tgt[i], src[i], t)
            ELSE tgt[i]]

HardResult(src, tgt) == RunLoop("hard", tgt, src, TauDen)

HardRaises(src, tgt) == FirstBad("hard", tgt, src) # 0

SoftResult(src, tgt, t) == RunLoop("soft", tgt, src, t)

SoftRaises(src, tgt) == FirstBad("soft", tgt, src) # 0

\* The networks the model draws have at most MaxParams parameters each.
MaxParams == 2

\* Element values at construction; NaN arises from the arithmetic (inf * 0).
InitVals == {Fin(FALSE, 2), Fin(TRUE, 0), Inf(FALSE)}

\* Single-element parameters with every value, and longer ones so that each
\* shape relation occurs: equal, broadcastable (1 to n), incompatible.
InitTensors ==
    {Tensor(1, v) : v \in InitVals}
        \cup {Tensor(2, Fin(FALSE, 2)), Tensor(2, Inf(FALSE)), Tensor(3, Fin(TRUE, 0))}

RECURSIVE SeqsUpTo(_, _)
SeqsUpTo(S, n) ==
    IF n = 0 THEN {<<>>}
    ELSE LET shorter == SeqsUpTo(S, n - 1)
         IN  shorter \cup {Append(s, x) : s \in {q \in shorter : Len(q) = n - 1}, x \in S}

Networks == SeqsUpTo(InitTensors, MaxParams)

NoCall == [op |-> "none", tau |-> 0, raised |-> FALSE,
           pre_source |-> <<>>, pre_target |-> <<>>]

SyncInit ==
    /\ source \in Networks
    /\ target \in Networks
    /\ syncLast = NoCall

\* The synchronizer before any network is handed to it.
SyncIdle ==
    /\ source = <<>>
    /\ target = <<>>
    /\ syncLast = NoCall

hard_update ==
    /\ target' = HardResult(source, target)
    /\ source' = source
    /\ syncLast' = [op |-> "hard", tau |-> TauDen, raised |-> HardRaises(source, target),
                    pre_source |-> source, pre_target |-> target]
    /\ UNCHANGED exceptSync

soft_update ==
    \E t \in Taus :
        /\ target' = SoftResult(source, target, t)
        /\ source' = source
        /\ syncLast' = [op |-> "soft", tau |-> t, raised |-> SoftRaises(source, target),
                        pre_source |-> source, pre_target |-> target]
        /\ UNCHANGED exceptSync

SyncNext == hard_update \/ soft_update

(***************************************************************************)
(* Reflection helpers.  A string is a sequence of characters, an attribute *)
(* name is a string without a dot.  An object holds a finite map from      *)
(* attribute names to values; a value is an object or an atom (a value     *)
(* such as None or a number, which has none of these attributes and takes  *)
(* no new ones).                                                           *)
(***************************************************************************)
Objects == {"o1", "o2"}

Atoms == {"k"}

\* The values the calls pass: the second object and the atom.
Values == {"o2"} \cup Atoms

Chars == {"a", "."}

\* Longest dotted path the model passes to the helpers.
MaxPathLen == 3

\* Most attributes the object graph holds.
MaxAttrs == 2

RECURSIVE StringsUpTo(_, _)
StringsUpTo(S, n) ==
    IF n = 0 THEN {<<>>}
    ELSE LET shorter == StringsUpTo(S, n - 1)
         IN  shorter \cup {Append(s, c) : s \in {q \in shorter : Len(q) = n - 1}, c \in S}

Paths == StringsUpTo(Chars, MaxPathLen)

DotsOf(s) == {i \in 1..Len(s) : s[i] = "."}

Least(S) == CHOOSE i \in S : \A j \in S : i <= j

Greatest(S) == CHOOSE i \in S : \A j \in S : i >= j

\* attr.split("."): the pieces between the dots, empty pieces included.
RECURSIVE split(_)
split(s) ==
    IF DotsOf(s) = {} THEN <<s>>
    ELSE LET i == Least(DotsOf(s))
         IN  <<SubSeq(s, 1, i - 1)>> \o split(SubSeq(s, i + 1, Len(s)))

\* attr.rpartition("."): the text before the last dot and the text after it;
\* without a dot the text before is empty and the text after is attr.
rpartition(s) ==
    IF DotsOf(s) = {} THEN [pre |-> <<>>, post |-> s]
    ELSE LET i == Greatest(DotsOf(s))
         IN  [pre |-> SubSeq(s, 1, i - 1), post |-> SubSeq(s, i + 1, Len(s))]

Returned(v) == [raised |-> FALSE, val |-> v]

AttributeError == [raised |-> TRUE, val |-> "AttributeError"]

NoDefault == [has |-> FALSE, val |-> "k"]

Default(v) == [has |-> TRUE, val |-> v]

HasAttr(h, x, name) == x \in Objects /\ name \in DOMAIN h[x]

\* getattr(x, name, *args)
getattr(h, x, name, d) ==
    IF HasAttr(h, x, name) THEN Returned(h[x][name])
    ELSE IF d.has THEN Returned(d.val)
    ELSE AttributeError

\* functools.reduce(_getattr, [obj] + segments): a raise ends the reduction.
RECURSIVE reduce(_, _, _, _)
reduce(h, x, segs, d) ==
    IF segs = <<>> THEN Returned(x)
    ELSE LET r == getattr(h, x, Head(segs), d)
         IN  IF r.raised THEN r ELSE reduce(h, r.val, Tail(segs), d)

rgetattr(h, obj, attr, d) == reduce(h, obj, split(attr), d)

\* Faulty variant of Holder: the text before the last dot is resolved even when empty.
HolderAlwaysResolves(h, obj, attr) == rgetattr(h, obj, rpartition(attr).pre, NoDefault)

\* The object rsetattr assigns on: rgetattr(obj, pre) if pre else obj.
Holder(h, obj, attr) ==
    LET pre == rpartition(attr).pre
    IN  IF pre # <<>> THEN rgetattr(h, obj, pre, NoDefault) ELSE Returned(obj)

\* setattr(x, name, val): an atom takes no attribute.
setattr(h, x, name, val) ==
    IF x \in Objects
    THEN [h EXCEPT ![x] = [n \in DOMAIN h[x] \cup {name} |->
                              IF n = name THEN val ELSE h[x][n]]]
    ELSE h

rsetattrRaises(h, obj, attr) ==
    LET holder == Holder(h, obj, attr)
    IN  holder.raised \/ holder.val \notin Objects

rsetattrHeap(h, obj, attr, val) ==
    IF rsetattrRaises(h, obj, attr) THEN h
    ELSE setattr(h, Holder(h, obj, attr).val, rpartition(attr).post, val)

AttrCount(h) == LET Cells == {<<x, n>> \in Objects \X StringsUpTo(Chars \ {"."}, MaxPathLen) :
                                 n \in DOMAIN h[x]}
                IN  Cardinality(Cells)

NoAttrCall == [op |-> "none", obj |-> "o1", path |-> <<>>, arg |-> NoDefault,
               result |-> Returned("k"), pre_heap |-> [x \in Objects |-> <<>>]]

\* Freshly constructed objects carry no attribute.
AttrInit ==
    /\ heap = [x \in Objects |-> <<>>]
    /\ attrLast = NoAttrCall

AttrIdle == AttrInit

\* A call is made once the caller has taken the outcome of the previous one.
do_rgetattr ==
    \E obj \in Objects, attr \in Paths, d \in {NoDefault} \cup {Default(v) : v \in Values} :
        /\ attrLast.op = "none"
        /\ attrLast' = [op |-> "get", obj |-> obj, path |-> attr, arg |-> d,
                        result |-> rgetattr(heap, obj, attr, d), pre_heap |-> heap]
        /\ heap' = heap
        /\ UNCHANGED exceptAttr

do_rsetattr ==
    \E obj \in Objects, attr \in Paths, val \in Values :
        /\ attrLast.op = "none"
        /\ AttrCount(rsetattrHeap(heap, obj, attr, val)) <= MaxAttrs
        /\ heap' = rsetattrHeap(heap, obj, attr, val)
        /\ attrLast' = [op |-> "set", obj |-> obj, path |-> attr, arg |-> Default(val),
                        result |-> IF rsetattrRaises(heap, obj, attr)
                                   THEN AttributeError ELSE Returned("k"),
                        pre_heap |-> heap]
        /\ UNCHANGED exceptAttr

\* The caller takes the outcome (the returned value or the exception).
attr_call_done ==
    /\ attrLast.op # "none"
    /\ attrLast' = NoAttrCall
    /\ heap' = heap
    /\ UNCHANGED exceptAttr

AttrNext == do_rgetattr \/ do_rsetattr \/ attr_call_done

(***************************************************************************)
(* Timing and logging helpers.  None is the absent value of an optional.   *)
(***************************************************************************)
None == [none |-> TRUE, val |-> 0]

Some(v) == [none |-> FALSE, val |-> v]

\* The wall clock is read up to MaxClock.
MaxClock == 2

\* Most timed calls (calls with timer=True) and most written lines.
MaxTimed == 2

MaxLines == 2

Names == {"", "fwd"}

\* print(s, end=e)
stdout(out, s, e) == Append(out, [text |-> s, end |-> e])

\* log.write(s)
Write(out, s, e) == Append(out, [text |-> s, end |-> e])

\* print_log(print_str, log, same_line, display): what it leaves on the
\* console and in the log file.
print_log_console(out, s, same_line, display) ==
    IF display THEN stdout(out, s, IF same_line THEN "" ELSE "\n") ELSE out

print_log_file(out, s, same_line) ==
    Write(out, s, IF same_line THEN "" ELSE "\n")

\* f"{name:30s} EP: {elapsed_ms:.2f} ms"
print_str(name, elapsed_ms) == [name |-> name, ms |-> elapsed_ms]

NoTimerCall == [op |-> "none", timer |-> FALSE, start_time |-> None, log |-> FALSE,
                ret |-> None, raised |-> FALSE,
                pre_device |-> 0, pre_console |-> <<>>, pre_logfile |-> <<>>]

TimerInit ==
    /\ clock = 0
    /\ device = 0
    /\ console = <<>>
    /\ logfile = <<>>
    /\ timerLast = NoTimerCall

TimerIdle == TimerInit

\* Faulty variant of Timed: the flag is ignored.
TimedAlways(timer) == TRUE

\* Whether tic/toc with this flag go through the timed branch.
Timed(timer) == timer

tic ==
    \E timer \in BOOLEAN :
        /\ Timed(timer) => device < MaxTimed
        /\ device' = IF Timed(timer) THEN device + 1 ELSE device
        /\ timerLast' = [op |-> "tic", timer |-> timer, start_time |-> None, log |-> FALSE,
                         ret |-> IF Timed(timer) THEN Some(clock) ELSE None,
                         raised |-> FALSE,
                         pre_device |-> device, pre_console |-> console,
                         pre_logfile |-> logfile]
        /\ UNCHANGED <<clock, console, logfile>>
        /\ UNCHANGED exceptTimer

\* toc: with the timer on and start_time None the subtraction raises TypeError
\* after the synchronization.
toc ==
    \E timer \in BOOLEAN, name \in Names, log \in BOOLEAN,
       start_time \in {None} \cup {Some(t) : t \in 0..clock} :
        LET elapsed_ms == (clock - start_time.val) * 1000
            raises == Timed(timer) /\ start_time.none
            prints == Timed(timer) /\ ~raises
        IN  /\ Timed(timer) => device < MaxTimed
            /\ prints => Len(console) + Len(logfile) < MaxLines
            /\ device' = IF Timed(timer) THEN device + 1 ELSE device
            /\ console' = IF ~prints THEN console
                          ELSE IF log
                          THEN print_log_console(console, print_str(name, elapsed_ms),
                                                 FALSE, FALSE)
                          ELSE stdout(console, print_str(name, elapsed_ms), "\n")
            /\ logfile' = IF prints /\ log
                          THEN print_log_file(logfile, print_str(name, elapsed_ms), FALSE)
                          ELSE logfile
            /\ timerLast' = [op |-> "toc", timer |-> timer, start_time |-> start_time,
                             log |-> log,
                             ret |-> IF prints THEN Some(elapsed_ms) ELSE None,
                             raised |-> raises,
                             pre_device |-> device, pre_console |-> console,
                             pre_logfile |-> logfile]
            /\ clock' = clock
            /\ UNCHANGED exceptTimer

print_log ==
    \E name \in Names, same_line \in BOOLEAN, display \in BOOLEAN :
        /\ Len(console) + Len(logfile) + 1 < MaxLines
        /\ console' = print_log_console(console, print_str(name, 0), same_line, display)
        /\ logfile' = print_log_file(logfile, print_str(name, 0), same_line)
        /\ timerLast' = [op |-> "print_log", timer |-> FALSE, start_time |-> None,
                         log |-> TRUE, ret |-> None, raised |-> FALSE,
                         pre_device |-> device, pre_console |-> console,
                         pre_logfile |-> logfile]
        /\ UNCHANGED <<clock, device>>
        /\ UNCHANGED exceptTimer

\* Time passes between calls.
time_passes ==
    /\ clock < MaxClock
    /\ clock' = clock + 1
    /\ UNCHANGED <<device, console, logfile, timerLast>>
    /\ UNCHANGED exceptTimer

TimerNext == tic \/ toc \/ print_log \/ time_passes

(***************************************************************************)
(* Scheduler factory.                                                      *)
(***************************************************************************)
\* Epoch milestones are drawn from 1..MaxEpoch, at most MaxMilestones of them.
MaxEpoch == 3

MaxMilestones == 2

Schedules == SeqsUpTo(1..MaxEpoch, MaxMilestones)

\* learning_rate.decay_factor, in tenths.
DecayFactors == {1, 5}

Optimizers == {"optimA", "optimB"}

Nets == {"netA", "netB"}

\* optim.lr_scheduler.MultiStepLR(optimizer=, milestones=, gamma=)
MultiStepLR(optimizer, milestones, gamma) ==
    [none |-> FALSE, optimizer |-> optimizer, milestones |-> milestones, gamma |-> gamma]

NoScheduler == [none |-> TRUE, optimizer |-> "", milestones |-> <<>>, gamma |-> 0]

\* Faulty variant of NeedsScheduler: a single milestone is not enough.
NeedsSchedulerOffByOne(epoch_schedule) == Len(epoch_schedule) > 1

\* len(epoch_schedule) > 0
NeedsScheduler(epoch_schedule) == Len(epoch_schedule) > 0

lr_scheduler(learning_rate, optimizer) ==
    IF NeedsScheduler(learning_rate.epoch_schedule)
    THEN MultiStepLR(optimizer, learning_rate.epoch_schedule, learning_rate.decay_factor)
    ELSE NoScheduler

NoSchedCall == [called |-> FALSE, net |-> "netA", optimizer |-> "optimA",
                learning_rate |-> [epoch_schedule |-> <<>>, decay_factor |-> 1],
                ret |-> NoScheduler]

SchedInit == schedLast = NoSchedCall

SchedIdle == SchedInit

lr_scheduler_from_optim_params ==
    \E n \in Nets, optimizer \in Optimizers, sch \in Schedules, g \in DecayFactors :
        LET learning_rate == [epoch_schedule |-> sch, decay_factor |-> g]
        IN  /\ schedLast' = [called |-> TRUE, net |-> n, optimizer |-> optimizer,
                             learning_rate |-> learning_rate,
                             ret |-> lr_scheduler(learning_rate, optimizer)]
            /\ UNCHANGED exceptSched

SchedNext == lr_scheduler_from_optim_params

(***************************************************************************)
(* Backpropagation driver.  A parameter holds one weight and an optional   *)
(* gradient; the call threads a record m through its statements, each of   *)
(* which appends its name to m.trace.                                      *)
(***************************************************************************)
\* Most backprop_for_loss calls in a run.
MaxCalls == 2

\* Quotient rounded toward zero.
TruncDiv(a, b) == IF a < 0 THEN 0 - ((0 - a) \div b) ELSE a \div b

\* Least n with n * n >= x: the 2-norm, rounded up.
NormUp(x) == CHOOSE n \in 0..x : n * n >= x /\ \A k \in 0..x : k * k >= x => n <= k

\* Sum of the squared gradients over the parameters that have one.
RECURSIVE SumSq(_)
SumSq(grads) ==
    IF grads = <<>> THEN 0
    ELSE (IF Head(grads).none THEN 0 ELSE Head(grads).val * Head(grads).val)
             + SumSq(Tail(grads))

\* optim.zero_grad(): gradients are reset to None or, where the framework
\* zeroes in place, existing gradients become 0.
zero_grad(m, set_to_none) ==
    [m EXCEPT !.grads = [i \in DOMAIN m.grads |->
                            IF set_to_none \/ m.grads[i].none THEN None ELSE Some(0)],
              !.trace = Append(m.trace, "zero_grad")]

\* loss.backward(retain_graph=...): the gradient of the loss is added to the
\* gradient of every parameter the loss depends on.
backward(m, loss, retain_graph) ==
    [m EXCEPT !.grads = [i \in DOMAIN m.grads |->
                            IF loss[i].none THEN m.grads[i]
                            ELSE Some((IF m.grads[i].none THEN 0 ELSE m.grads[i].val)
                                          + loss[i].val)],
              !.trace = Append(m.trace, IF retain_graph THEN "backward(retain_graph=True)"
                                        ELSE "backward(retain_graph=False)")]

\* torch.nn.utils.clip_grad_norm_(net.parameters(), max_grad_norm): gradients
\* whose global norm exceeds max_norm are scaled by max_norm / norm.
clip_grad_norm_(m, max_norm) ==
    LET total == SumSq(m.grads)
    IN  [m EXCEPT !.grads = [i \in DOMAIN m.grads |->
                                IF m.grads[i].none \/ total <= max_norm * max_norm
                                THEN m.grads[i]
                                ELSE Some(TruncDiv(m.grads[i].val * max_norm,
                                                   NormUp(total)))],
                  !.trace = Append(m.trace, "clip_grad_norm_")]

\* grad_norms = 0.0; for p in net.parameters(): if p.grad is not None: ...
compute_grad_norms(m) ==
    [m EXCEPT !.grad_norms = SumSq(m.grads),
              !.trace = Append(m.trace, "grad_norms")]

\* optim.step(): every parameter with a gradient moves against it.
step(m) ==
    [m EXCEPT !.params = [i \in DOMAIN m.params |->
                             IF m.grads[i].none THEN m.params[i]
                             ELSE m.params[i] - m.grads[i].val],
              !.trace = Append(m.trace, "step")]

\* Faulty variant of backprop_body: the statistic is taken before the clipping.
backprop_body_norms_first(m0, loss, max_grad_norm, retain_graph, set_to_none) ==
    LET m1 == zero_grad(m0, set_to_none)
        m2 == backward(m1, loss, retain_graph)
        m3 == compute_grad_norms(m2)
        m4 == IF ~max_grad_norm.none THEN clip_grad_norm_(m3, max_grad_norm.val) ELSE m3
        m5 == step(m4)
    IN  m5

\* The body of backprop_for_loss, statement by statement.
backprop_body(m0, loss, max_grad_norm, retain_graph, set_to_none) ==
    LET m1 == zero_grad(m0, set_to_none)
        m2 == backward(m1, loss, retain_graph)
        m3 == IF ~max_grad_norm.none THEN clip_grad_norm_(m2, max_grad_norm.val) ELSE m2
        m4 == compute_grad_norms(m3)
        m5 == step(m4)
    IN  m5

\* Gradient of a loss with respect to one parameter; None when the loss does
\* not depend on the parameter.
LossGrads == {None, Some(6), Some(0 - 8)}

MaxGradNorms == {None, Some(5)}

NoBackprop == [called |-> FALSE, max_grad_norm |-> None, retain_graph |-> FALSE,
               ret |-> 0, trace |-> <<>>, pre_params |-> <<>>]

BackpropInit ==
    /\ net = [params |-> <<1, 0 - 1>>, grads |-> <<None, None>>]
    /\ bpLast = NoBackprop
    /\ bpCalls = 0

BackpropIdle == BackpropInit

backprop_for_loss ==
    \E loss \in [DOMAIN net.params -> LossGrads], max_grad_norm \in MaxGradNorms,
       retain_graph \in BOOLEAN, set_to_none \in BOOLEAN :
        LET m == backprop_body([params |-> net.params, grads |-> net.grads,
                                grad_norms |-> 0, trace |-> <<>>],
                               loss, max_grad_norm, retain_graph, set_to_none)
        IN  /\ bpCalls < MaxCalls
            /\ bpCalls' = bpCalls + 1
            /\ net' = [params |-> m.params, grads |-> m.grads]
            /\ bpLast' = [called |-> TRUE, max_grad_norm |-> max_grad_norm,
                          retain_graph |-> retain_graph, ret |-> m.grad_norms,
                          trace |-> m.trace, pre_params |-> net.params]
            /\ UNCHANGED exceptBackprop

BackpropNext == backprop_for_loss

(***************************************************************************)
(* ProgressBar callback.  An indicator is what tqdm(...) returns: a        *)
(* disabled indicator ignores update() and close().                        *)
(***************************************************************************)
\* Largest trainer.max_epochs, and most on_epoch_end calls within one fit.
MaxEpochs == 2

MaxEnds == 2

NoBar == [none |-> TRUE, n |-> 0, total |-> 0, initial |-> 0, leave |-> FALSE,
          disable |-> FALSE, desc |-> <<0, 0>>, closed |-> FALSE]

\* self.global_desc.format(epoch=trainer.current_epoch + 1, max_epoch=trainer.max_epochs)
global_desc(tr) == <<tr.current_epoch + 1, tr.max_epochs>>

tqdm(desc, total, initial, leave, disable) ==
    [none |-> FALSE, n |-> initial, total |-> total, initial |-> initial, leave |-> leave,
     disable |-> disable, desc |-> desc, closed |-> FALSE]

set_description(bar, desc) == [bar EXCEPT !.desc = desc]

update(bar, k) == IF bar.disable THEN bar ELSE [bar EXCEPT !.n = bar.n + k]

close(bar) == IF bar.disable THEN bar ELSE [bar EXCEPT !.closed = TRUE, !.disable = TRUE]

\* Faulty variant of AfterFitEnd: the handle is not reset.
HandleKept(bar) == bar

\* The handle on_fit_end leaves in self.global_pb.
AfterFitEnd(bar) == NoBar

Hook(op, raised) == [op |-> op, raised |-> raised]

ProgressInit ==
    /\ trainer \in {[current_epoch |-> e, max_epochs |-> m] :
                        m \in 1..MaxEpochs, e \in 0..MaxEpochs}
    /\ trainer.current_epoch < trainer.max_epochs
    /\ callback \in {[global_progress |-> g, leave_global_progress |-> l, global_pb |-> NoBar] :
                        g \in BOOLEAN, l \in BOOLEAN}
    /\ pbGhost = [open |-> FALSE, start_epoch |-> 0, ends |-> 0, last |-> Hook("init", FALSE)]
    /\ disposed = NoBar

ProgressIdle ==
    /\ trainer = [current_epoch |-> 0, max_epochs |-> 1]
    /\ callback = [global_progress |-> TRUE, leave_global_progress |-> TRUE,
                   global_pb |-> NoBar]
    /\ pbGhost = [open |-> FALSE, start_epoch |-> 0, ends |-> 0, last |-> Hook("init", FALSE)]
    /\ disposed = NoBar

on_fit_start ==
    /\ callback' = [callback EXCEPT !.global_pb =
                       tqdm(global_desc(trainer), trainer.max_epochs, trainer.current_epoch,
                            callback.leave_global_progress, ~callback.global_progress)]
    /\ pbGhost' = [open |-> TRUE, start_epoch |-> trainer.current_epoch, ends |-> 0,
                   last |-> Hook("on_fit_start", FALSE)]
    /\ UNCHANGED <<trainer, disposed>>
    /\ UNCHANGED exceptProgress

\* self.global_pb.close() on None raises AttributeError before the assignment.
on_fit_end ==
    /\ IF callback.global_pb.none
       THEN /\ pbGhost' = [pbGhost EXCEPT !.last = Hook("on_fit_end", TRUE)]
            /\ UNCHANGED <<callback, disposed>>
       ELSE /\ disposed' = close(callback.global_pb)
            /\ callback' = [callback EXCEPT !.global_pb = AfterFitEnd(callback.global_pb)]
            /\ pbGhost' = [pbGhost EXCEPT !.open = FALSE, !.last = Hook("on_fit_end", FALSE)]
    /\ UNCHANGED trainer
    /\ UNCHANGED exceptProgress

on_epoch_end ==
    /\ IF callback.global_pb.none
       THEN /\ pbGhost' = [pbGhost EXCEPT !.last = Hook("on_epoch_end", TRUE)]
            /\ UNCHANGED callback
       ELSE /\ pbGhost.ends < MaxEnds
            /\ callback' = [callback EXCEPT !.global_pb =
                               update(set_description(callback.global_pb,
                                                      global_desc(trainer)), 1)]
            /\ pbGhost' = [pbGhost EXCEPT !.ends = pbGhost.ends + 1,
                                          !.last = Hook("on_epoch_end", FALSE)]
    /\ UNCHANGED <<trainer, disposed>>
    /\ UNCHANGED exceptProgress

\* The training loop moves to the next epoch.
trainer_next_epoch ==
    /\ trainer.current_epoch < trainer.max_epochs
    /\ trainer' = [trainer EXCEPT !.current_epoch = trainer.current_epoch + 1]
    /\ UNCHANGED <<callback, pbGhost, disposed>>
    /\ UNCHANGED exceptProgress

ProgressNext == on_fit_start \/ on_fit_end \/ on_epoch_end \/ trainer_next_epoch

(***************************************************************************)
(* Specifications, one per component.                                      *)
(***************************************************************************)
InitSyncOnly ==
    SyncInit /\ AttrIdle /\ TimerIdle
        /\ SchedIdle /\ BackpropIdle /\ ProgressIdle

SpecSync == InitSyncOnly /\ [][SyncNext]_vars

InitAttrOnly ==
    SyncIdle /\ AttrInit /\ TimerIdle
        /\ SchedIdle /\ BackpropIdle /\ ProgressIdle

SpecAttr == InitAttrOnly /\ [][AttrNext]_vars

InitTimerOnly ==
    SyncIdle /\ AttrIdle /\ TimerInit
        /\ SchedIdle /\ BackpropIdle /\ ProgressIdle

SpecTimer == InitTimerOnly /\ [][TimerNext]_vars

InitSchedOnly ==
    SyncIdle /\ AttrIdle /\ TimerIdle
        /\ SchedInit /\ BackpropIdle /\ ProgressIdle

SpecSched == InitSchedOnly /\ [][SchedNext]_vars

InitBackpropOnly ==
    SyncIdle /\ AttrIdle /\ TimerIdle
        /\ SchedIdle /\ BackpropInit /\ ProgressIdle

SpecBackprop == InitBackpropOnly /\ [][BackpropNext]_vars

InitProgressOnly ==
    SyncIdle /\ AttrIdle /\ TimerIdle
        /\ SchedIdle /\ BackpropIdle /\ ProgressInit

SpecProgress == InitProgressOnly /\ [][ProgressNext]_vars

(***************************************************************************)
(* Claims about the parameter synchronizer.                                *)
(***************************************************************************)
\* Same number of parameters, positionally the same shapes.
SameStructure(a, b) ==
    /\ Len(a) = Len(b)
    /\ \A i \in 1..Len(a) : a[i].numel = b[i].numel

AllFinite(nw) == \A i \in 1..Len(nw) : IsFinite(nw[i].val)

\* Same shapes and numerically equal elements (==), position by position.
NetNumEq(a, b) ==
    /\ SameStructure(a, b)
    /\ \A i \in 1..Len(a) : NumEq(a[i].val, b[i].val)

\* Every paired parameter of the source has the shape of its partner in the
\* target or is a single element.
PairsCompatible(src, tgt) ==
    \A i \in 1..Min(Len(tgt), Len(src)) :
        src[i].numel = tgt[i].numel \/ src[i].numel = 1

\* The same state of a network under the most lenient reading: position by
\* position the same shape, and elements bit-identical or numerically equal.
NetSame(a, b) ==
    /\ SameStructure(a, b)
    /\ \A i \in 1..Len(a) : a[i].val = b[i].val \/ NumEq(a[i].val, b[i].val)

\* C1: after hard_update on two networks of the same structure, every
\* parameter of target is bit for bit the parameter of source at the same
\* position, no error was raised, and source is as it was.
C1_HardUpdateCopies ==
    (syncLast.op = "hard" /\ SameStructure(syncLast.pre_source, syncLast.pre_target))
        => /\ ~syncLast.raised
           /\ target = syncLast.pre_source
           /\ source = syncLast.pre_source

C1_Witness ==
    /\ syncLast.op = "hard"
    /\ SameStructure(syncLast.pre_source, syncLast.pre_target)
    /\ Len(syncLast.pre_target) = 2
    /\ syncLast.pre_target[1] # syncLast.pre_source[1]
    /\ syncLast.pre_target[2] # syncLast.pre_source[2]
    /\ syncLast.pre_source[1] # syncLast.pre_source[2]
    /\ target = source

\* C2 as stated: on networks of the same structure, soft_update with tau = 0
\* leaves target unchanged and with tau = 1 leaves it as hard_update would.
C2_AsStated ==
    (syncLast.op = "soft" /\ SameStructure(syncLast.pre_source, syncLast.pre_target))
        => /\ syncLast.tau = 0 => NetSame(target, syncLast.pre_target)
           /\ syncLast.tau = TauDen
                 => NetSame(target, HardResult(syncLast.pre_source, syncLast.pre_target))

\* C2 amended: when every parameter element of both networks is finite,
\* soft_update with tau = 0 leaves target numerically equal to what it was and
\* with tau = 1 numerically equal to the result of hard_update (the sign of a
\* zero may differ).
C2_FiniteEndpoints ==
    (/\ syncLast.op = "soft"
     /\ SameStructure(syncLast.pre_source, syncLast.pre_target)
     /\ AllFinite(syncLast.pre_source)
     /\ AllFinite(syncLast.pre_target))
        => /\ ~syncLast.raised
           /\ syncLast.tau = 0 => NetNumEq(target, syncLast.pre_target)
           /\ syncLast.tau = TauDen
                 => NetNumEq(target, HardResult(syncLast.pre_source, syncLast.pre_target))

C2_Witness ==
    /\ syncLast.op = "soft"
    /\ syncLast.tau = TauDen
    /\ SameStructure(syncLast.pre_source, syncLast.pre_target)
    /\ AllFinite(syncLast.pre_source)
    /\ AllFinite(syncLast.pre_target)
    /\ Len(target) = 2
    /\ ~NetNumEq(syncLast.pre_target, syncLast.pre_source)
    /\ NetNumEq(target, source)

\* The parameters of target a call reaches, as the update formula sets them.
Updated(call, i) ==
    IF call.op = "hard" THEN Copy(call.pre_target[i], call.pre_source[i])
    ELSE Copy(call.pre_target[i], Blend(call.pre_target[i], call.pre_source[i], call.tau))

Dot(h, x, name) ==
    IF x \in Objects /\ name \in DOMAIN h[x] THEN Returned(h[x][name]) ELSE AttributeError

LastDot(s) == CHOOSE i \in DotsOf(s) : \A j \in DotsOf(s) : j <= i

BeforeLastDot(s) == IF DotsOf(s) = {} THEN <<>> ELSE SubSeq(s, 1, LastDot(s) - 1)

AfterLastDot(s) == IF DotsOf(s) = {} THEN s ELSE SubSeq(s, LastDot(s) + 1, Len(s))

\* obj.a.b.c read as ((obj.a).b).c: every segment of the path is resolved by
\* single-level access on the value the segments before it resolve to.
RECURSIVE Access(_, _, _)
Access(h, x, s) ==
    IF DotsOf(s) = {} THEN Dot(h, x, s)
    ELSE LET r == Access(h, x, BeforeLastDot(s))
         IN  IF r.raised THEN r ELSE Dot(h, r.val, AfterLastDot(s))

\* Every segment of the path except possibly the last resolves.
PrefixResolves(h, x, s) == DotsOf(s) = {} \/ ~Access(h, x, BeforeLastDot(s)).raised

\* C3: for a path whose every segment except possibly the last resolves, an
\* rsetattr(obj, path, v) that returns is followed by rgetattr(obj, path) = v;
\* and rgetattr(obj, path) is segment-by-segment attribute access.
C3_RoundTrip ==
    /\ (/\ attrLast.op = "set"
        /\ PrefixResolves(attrLast.pre_heap, attrLast.obj, attrLast.path)
        /\ ~attrLast.result.raised)
          => rgetattr(heap, attrLast.obj, attrLast.path, NoDefault)
                = Returned(attrLast.arg.val)
    /\ (attrLast.op = "get" /\ ~attrLast.arg.has)
          => attrLast.result = Access(attrLast.pre_heap, attrLast.obj, attrLast.path)

\* C4: rgetattr with a default, on a path some attribute of which is absent,
\* raises nothing and returns the default.
C4_DefaultReturned ==
    (/\ attrLast.op = "get"
     /\ attrLast.arg.has
     /\ Access(attrLast.pre_heap, attrLast.obj, attrLast.path).raised)
        => attrLast.result = Returned(attrLast.arg.val)

\* C5 as stated: rsetattr raises an attribute error whenever some segment of
\* the path, the last included, names an attribute that is absent on the
\* object reached there.
C5_AsStated ==
    (/\ attrLast.op = "set"
     /\ Access(attrLast.pre_heap, attrLast.obj, attrLast.path).raised)
        => attrLast.result.raised

\* The object a path's assignment lands on when the text before the last dot
\* is resolved segment by segment (obj itself when that text is empty).
Landing(h, x, s) ==
    IF BeforeLastDot(s) = <<>> THEN Returned(x) ELSE Access(h, x, BeforeLastDot(s))

\* C5 amended: rsetattr raises an attribute error exactly when the text before
\* the last dot of the path is non-empty and either one of its segments names
\* an absent attribute or it resolves to a value that takes no attributes; the
\* object graph is then unchanged.  In every other case it raises nothing, also
\* when the last segment names an absent attribute: the attribute is created
\* (or overwritten) with val on the object reached, which is obj itself when
\* the text before the last dot is empty (no dot, or a leading dot as in ".a",
\* whose empty first segment is not resolved).
C5_RaisesOnlyOnPrefix ==
    attrLast.op = "set" =>
        LET land == Landing(attrLast.pre_heap, attrLast.obj, attrLast.path)
            post == AfterLastDot(attrLast.path)
        IN  /\ attrLast.result.raised <=> (land.raised \/ land.val \notin Objects)
            /\ attrLast.result.raised => heap = attrLast.pre_heap
            /\ ~attrLast.result.raised =>
                 /\ Dot(heap, land.val, post) = Returned(attrLast.arg.val)
                 /\ \A x \in Objects :
                      /\ DOMAIN heap[x] =
                           DOMAIN attrLast.pre_heap[x]
                             \cup (IF x = land.val THEN {post} ELSE {})
                      /\ \A n \in DOMAIN attrLast.pre_heap[x] :
                           (x # land.val \/ n # post) => heap[x][n] = attrLast.pre_heap[x][n]

\* A nested path whose last segment is absent: the attribute is created.
C5_Witness ==
    /\ attrLast.op = "set"
    /\ attrLast.path = <<"a", ".", "a">>
    /\ attrLast.obj = "o1"
    /\ Access(attrLast.pre_heap, "o1", <<"a">>) = Returned("o2")
    /\ Access(attrLast.pre_heap, "o1", attrLast.path).raised
    /\ ~attrLast.result.raised
    /\ Access(heap, "o1", attrLast.path) = Returned(attrLast.arg.val)

(***************************************************************************)
(* Claims about the timing helpers.                                        *)
(***************************************************************************)
\* C6: with timer=False, tic and toc return None whatever start_time, name and
\* log are, raise nothing, synchronize no device and write nothing to the
\* console or to the log.
C6_TimerOffIsInert ==
    (timerLast.op \in {"tic", "toc"} /\ ~timerLast.timer)
        => /\ timerLast.ret = None
           /\ ~timerLast.raised
           /\ device = timerLast.pre_device
           /\ console = timerLast.pre_console
           /\ logfile = timerLast.pre_logfile

\* A disabled toc, given the None of a disabled tic and a log, after a timed
\* call has synchronized and printed.
C6_Witness ==
    /\ timerLast.op = "toc"
    /\ ~timerLast.timer
    /\ timerLast.start_time = None
    /\ timerLast.log
    /\ device >= 1
    /\ Len(console) >= 1

(***************************************************************************)
(* Claims about the scheduler factory.                                     *)
(***************************************************************************)
\* C7: lr_scheduler_from_optim_params returns None exactly when
\* learning_rate.epoch_schedule is empty; otherwise it returns a multi-step
\* scheduler bound to the given optimizer, with epoch_schedule as milestones
\* and learning_rate.decay_factor as decay factor.
C7_SchedulerIffMilestones ==
    schedLast.called =>
        /\ schedLast.ret.none <=> schedLast.learning_rate.epoch_schedule = <<>>
        /\ ~schedLast.ret.none =>
             /\ schedLast.ret.optimizer = schedLast.optimizer
             /\ schedLast.ret.milestones = schedLast.learning_rate.epoch_schedule
             /\ schedLast.ret.gamma = schedLast.learning_rate.decay_factor

C7_Witness ==
    /\ schedLast.called
    /\ Len(schedLast.learning_rate.epoch_schedule) = 1
    /\ ~schedLast.ret.none
    /\ schedLast.ret.optimizer = "optimB"

(***************************************************************************)
(* Claims about the backpropagation driver.                                *)
(***************************************************************************)
\* Sum of the squared gradients of the parameters in S that have a gradient.
RECURSIVE SquaresOver(_, _)
SquaresOver(grads, S) ==
    IF S = {} THEN 0
    ELSE LET i == CHOOSE j \in S : TRUE
         IN  (IF grads[i].none THEN 0 ELSE grads[i].val * grads[i].val)
                 + SquaresOver(grads, S \ {i})

C9_Window ==
    /\ ~callback.global_pb.none <=> pbGhost.open
    /\ ~callback.global_pb.none =>
         /\ callback.global_pb.total = trainer.max_epochs
         /\ callback.global_pb.initial = pbGhost.start_epoch
         /\ ~callback.global_pb.closed
    /\ (pbGhost.last.op = "on_fit_end" /\ ~pbGhost.last.raised) =>
         /\ callback.global_pb.none
         /\ ~disposed.none
         /\ callback.global_progress => disposed.closed
    /\ pbGhost.last.raised =>
         /\ pbGhost.last.op \in {"on_epoch_end", "on_fit_end"}
         /\ callback.global_pb.none

\* C9 as stated: moreover the position after k on_epoch_end calls is
\* initial + k, one unit per call.
C9_AsStated ==
    /\ C9_Window
    /\ ~callback.global_pb.none =>
         callback.global_pb.n = callback.global_pb.initial + pbGhost.ends

\* C9 amended: the position after k on_epoch_end calls is initial + k when the
\* callback was built with global_progress=True; with global_progress=False
\* the indicator is created disabled and its position stays at initial.  The
\* rest of the claim stands.
C9_PositionWhenEnabled ==
    /\ C9_Window
    /\ ~callback.global_pb.none =>
         /\ callback.global_pb.disable = ~callback.global_progress
         /\ callback.global_pb.n =
              IF callback.global_progress
              THEN callback.global_pb.initial + pbGhost.ends
              ELSE callback.global_pb.initial

\* An enabled indicator, started at a later epoch, after two epoch ends.
C9_Witness ==
    /\ callback.global_progress
    /\ ~callback.global_pb.none
    /\ pbGhost.ends = 2
    /\ pbGhost.start_epoch = 1
    /\ callback.global_pb.n = 3
    /\ ~disposed.none

====
